---- MODULE Spec2Model ----
(***************************************************************************)
(* Model of gpx_kml_convert: the conversion of a parsed GPX document into  *)
(* a KML document tree and its framing on the output sink                  *)
(* (src/src/lib.rs).                                                       *)
(*                                                                         *)
(* Rust Option<T> is modelled as a sequence of length at most one:         *)
(* None is << >> and Some(x) is << x >>.  Strings are TLA+ strings.        *)
(* f64 coordinate values pass through the code unchanged; they are         *)
(* modelled by integers in tenths of a unit (12.5 is 125).                 *)
(***************************************************************************)
EXTENDS Integers, Sequences, FiniteSets, TLC

----------------------------------------------------------------------------
(* Option<T> *)

None == << >>
Some(x) == << x >>
is_some(o) == o # << >>
unwrap(o) == o[1]
Opt(S) == {None} \cup {Some(x) : x \in S}

(* Sequences over S of length at most n. *)
SeqUpTo(n, S) == UNION {[1..k -> S] : k \in 0..n}

----------------------------------------------------------------------------
(* Bounds of the model. *)

MaxWaypoints == 2
MaxRoutes == 2
MaxTracks == 2
MaxRoutePoints == 3
MaxSegments == 2
MaxSegPoints == 2
MaxLinks == 2
MaxRuns == 2

----------------------------------------------------------------------------
(* Constants of src/src/lib.rs. *)

XML_HEAD == "<?xml version=\"1.0\" encoding=\"UTF-8\"?>"
NAMESPACES ==
    << <<"xmlns", "http://www.opengis.net/kml/2.2">>,
       <<"xmlns:atom", "http://www.w3.org/2005/Atom">> >>
DEFAULT_OPEN == "1"
DEFAULT_TESSELLATE == TRUE

(* kml::types::AltitudeMode: its Default is ClampToGround. *)
AltitudeModeDefault == "ClampToGround"
AltitudeModeAbsolute == "Absolute"

----------------------------------------------------------------------------
(* Display of integers ("{}" on an i32), as used for the copyright year.   *)

Digit(d) == CASE d = 0 -> "0" [] d = 1 -> "1" [] d = 2 -> "2" [] d = 3 -> "3"
              [] d = 4 -> "4" [] d = 5 -> "5" [] d = 6 -> "6" [] d = 7 -> "7"
              [] d = 8 -> "8" [] d = 9 -> "9"

RECURSIVE NatToStr(_)
NatToStr(n) == IF n < 10 THEN Digit(n) ELSE NatToStr(n \div 10) \o Digit(n % 10)

IntToStr(i) == IF i < 0 THEN "-" \o NatToStr(0 - i) ELSE NatToStr(i)

(* n written with at least w digits, zero padded. *)
RECURSIVE Pad(_, _)
Pad(n, w) == IF Len(NatToStr(n)) >= w THEN NatToStr(n)
             ELSE "0" \o Pad(n, w - 1)

(* gpx::Time::format: ISO 8601 rendering of a time stamp.  The rendering   *)
(* is a Result: it fails for a year that four digits cannot hold, and the  *)
(* callers turn the failure into None with .ok().  A time stamp is         *)
(* modelled by its calendar date at midnight UTC.                          *)
format(t) ==
    IF t.year \in 0..9999
    THEN Some(Pad(t.year, 4) \o "-" \o Pad(t.month, 2) \o "-" \o Pad(t.day, 2)
              \o "T00:00:00.000000000Z")
    ELSE None

----------------------------------------------------------------------------
(* kml::types::Element and the element constructors of lib.rs. *)

simple_element(name, content) ==
    [name |-> name, attrs |-> << >>, content |-> Some(content), children |-> << >>]

simple_kelem(name, content) ==
    [kind |-> "Element", element |-> simple_element(name, content)]

atom_link_as_content(href) ==
    [name |-> "atom:link", attrs |-> << >>, content |-> Some(href), children |-> << >>]

atom_link(href) ==
    [name |-> "atom:link", attrs |-> << <<"href", href>> >>,
     content |-> None, children |-> << >>]

KElement(e) == [kind |-> "Element", element |-> e]

----------------------------------------------------------------------------
(* Defaults of the gpx types (Option::unwrap_or_default). *)

DefaultMetadata ==
    [name |-> None, author |-> None, links |-> << >>, description |-> None,
     time |-> None, keywords |-> None, copyright |-> None]

unwrap_or_default_str(o) == IF is_some(o) THEN unwrap(o) ELSE ""

unwrap_or_default_metadata(o) == IF is_some(o) THEN unwrap(o) ELSE DefaultMetadata

----------------------------------------------------------------------------
(* push_metadata, lib.rs 132-207, in the order of its statements. *)

author_children_is_some(author) ==
    IF ~is_some(author) THEN << >>
    ELSE LET a == unwrap(author)
             name0 == unwrap_or_default_str(a.name)
             mail == unwrap_or_default_str(a.email)
             name1 == IF is_some(a.name) /\ is_some(a.email) THEN name0 \o " " ELSE name0
             name2 == IF is_some(a.email) THEN name1 \o "<" \o mail \o ">" ELSE name1
             c1 == IF name2 # "" THEN << simple_element("atom:name", name2) >>
                   ELSE << >>
         IN  IF is_some(a.link) THEN Append(c1, atom_link(unwrap(a.link).href))
             ELSE c1

(* 137-154: the children of the atom:author element. *)
author_children(author) ==
    IF ~is_some(author) THEN << >>
    ELSE LET a == unwrap(author)
             name0 == unwrap_or_default_str(a.name)
             mail == unwrap_or_default_str(a.email)
             name1 == IF name0 # "" /\ mail # "" THEN name0 \o " " ELSE name0
             name2 == IF mail # "" THEN name1 \o "<" \o mail \o ">" ELSE name1
             c1 == IF name2 # "" THEN << simple_element("atom:name", name2) >>
                   ELSE << >>
         IN  IF is_some(a.link) THEN Append(c1, atom_link(unwrap(a.link).href))
             ELSE c1

created_line_time_only(time, creator) ==
    IF is_some(time)
    THEN "Created " \o unwrap(time)
         \o (IF is_some(creator) THEN " by " \o unwrap(creator) ELSE "")
         \o "\n"
    ELSE ""

(* 174-184: the "Created" line. *)
created_line(time, creator) ==
    IF is_some(time) \/ is_some(creator)
    THEN "Created"
         \o (IF is_some(time) THEN " " \o unwrap(time) ELSE "")
         \o (IF is_some(creator) THEN " by " \o unwrap(creator) ELSE "")
         \o "\n"
    ELSE ""

copyright_line_unfiltered(copyright) ==
    IF is_some(copyright)
    THEN LET c == unwrap(copyright)
         IN "Copyright"
            \o (IF is_some(c.author) THEN " " \o unwrap(c.author) ELSE "")
            \o (IF is_some(c.year) THEN " " \o IntToStr(unwrap(c.year)) ELSE "")
            \o (IF is_some(c.license) THEN " under " \o unwrap(c.license) ELSE "")
            \o "\n"
    ELSE ""

(* 188-203: the "Copyright" line. *)
copyright_line(copyright) ==
    IF is_some(copyright)
       /\ (is_some(unwrap(copyright).author) \/ is_some(unwrap(copyright).year)
           \/ is_some(unwrap(copyright).license))
    THEN LET c == unwrap(copyright)
         IN "Copyright"
            \o (IF is_some(c.author) THEN " " \o unwrap(c.author) ELSE "")
            \o (IF is_some(c.year) THEN " " \o IntToStr(unwrap(c.year)) ELSE "")
            \o (IF is_some(c.license) THEN " under " \o unwrap(c.license) ELSE "")
            \o "\n"
    ELSE ""

(* 167-203: the text of the metadata description. *)
metadata_description(metadata, creator) ==
    LET d0 == IF is_some(metadata.description)
              THEN unwrap(metadata.description) \o "\n" ELSE ""
        time == IF is_some(metadata.time) THEN format(unwrap(metadata.time)) ELSE None
        d1 == d0 \o created_line(time, creator)
        d2 == IF is_some(metadata.keywords)
              THEN d1 \o "Keywords: " \o unwrap(metadata.keywords) \o "\n" ELSE d1
    IN  d2 \o copyright_line(metadata.copyright)

push_description_always(elements, description) ==
    Append(elements, simple_kelem("description", description))

(* 204-206: the description element is pushed unless the text is empty. *)
push_description(elements, description) ==
    IF description # "" THEN Append(elements, simple_kelem("description", description))
    ELSE elements

push_metadata(metadata, creator, elements) ==
    LET e1 == IF is_some(metadata.name)
              THEN Append(elements, simple_kelem("name", unwrap(metadata.name)))
              ELSE elements
        children == author_children(metadata.author)
        e2 == IF children # << >>
              THEN Append(e1, KElement([name |-> "atom:author", attrs |-> << >>,
                                        content |-> None, children |-> children]))
              ELSE e1
        e3 == e2 \o [i \in 1..Len(metadata.links) |->
                        KElement(atom_link(metadata.links[i].href))]
    IN  push_description(e3, metadata_description(metadata, creator))

----------------------------------------------------------------------------
(* create_placemark, lib.rs 343-376. *)

placemark_description_type_first(args) ==
    LET d0 == IF is_some(args.description) THEN unwrap(args.description) \o "\n" ELSE ""
        d1 == IF is_some(args.comment) THEN d0 \o unwrap(args.comment) \o "\n" ELSE d0
        d2 == IF is_some(args.time) THEN d1 \o "Created " \o unwrap(args.time) \o "\n"
              ELSE d1
        d3 == IF is_some(args.typ) THEN d2 \o "Type: " \o unwrap(args.typ) \o "\n" ELSE d2
    IN  IF is_some(args.source) THEN d3 \o "Source: " \o unwrap(args.source) \o "\n"
        ELSE d3

(* 349-367: the text of a Placemark's description. *)
placemark_description(args) ==
    LET d0 == IF is_some(args.description) THEN unwrap(args.description) \o "\n" ELSE ""
        d1 == IF is_some(args.comment) THEN d0 \o unwrap(args.comment) \o "\n" ELSE d0
        d2 == IF is_some(args.time) THEN d1 \o "Created " \o unwrap(args.time) \o "\n"
              ELSE d1
        d3 == IF is_some(args.source) THEN d2 \o "Source: " \o unwrap(args.source) \o "\n"
              ELSE d2
    IN  IF is_some(args.typ) THEN d3 \o "Type: " \o unwrap(args.typ) \o "\n" ELSE d3

create_placemark(args) ==
    LET children == [i \in 1..Len(args.links) |-> atom_link(args.links[i].href)]
        description == placemark_description(args)
    IN  [kind |-> "Placemark",
         name |-> args.name,
         description |-> IF description # "" THEN Some(description) ELSE None,
         geometry |-> Some(args.geometry),
         children |-> children,
         attrs |-> << >>]

----------------------------------------------------------------------------
(* Geometry conversion, lib.rs 212-327. *)

(* gpx::Waypoint::point: a geo_types::Point with x the longitude and y the *)
(* latitude.                                                               *)
point(waypoint) == [x |-> waypoint.lon, y |-> waypoint.lat]

Coord_swapped(waypoint) ==
    [x |-> point(waypoint).y, y |-> point(waypoint).x, z |-> waypoint.elevation]

(* 215-219 (and again 249-253, 309-313): the kml Coord of a waypoint. *)
Coord(waypoint) ==
    [x |-> point(waypoint).x, y |-> point(waypoint).y, z |-> waypoint.elevation]

convert_waypoint(waypoint) ==
    LET geometry ==
            [type |-> "Point",
             coord |-> Coord(waypoint),
             extrude |-> FALSE,
             altitude_mode |-> IF is_some(waypoint.elevation)
                               THEN AltitudeModeAbsolute ELSE AltitudeModeDefault,
             attrs |-> << >>]
    IN  create_placemark(
            [name |-> waypoint.name, links |-> waypoint.links,
             description |-> waypoint.description, comment |-> waypoint.comment,
             time |-> IF is_some(waypoint.time) THEN format(unwrap(waypoint.time))
                      ELSE None,
             source |-> waypoint.source, typ |-> waypoint.type,
             geometry |-> geometry])

(* The loop of convert_route, 245-255: coords and elevation_avail after    *)
(* the points from index i on have been visited.                           *)
RECURSIVE route_loop_last_point(_, _, _, _)
route_loop_last_point(points, i, coords, elevation_avail) ==
    IF i > Len(points) THEN [coords |-> coords, elevation_avail |-> elevation_avail]
    ELSE route_loop_last_point(points, i + 1, Append(coords, Coord(points[i])),
                               is_some(points[i].elevation))

RECURSIVE route_loop(_, _, _, _)
route_loop(points, i, coords, elevation_avail) ==
    IF i > Len(points) THEN [coords |-> coords, elevation_avail |-> elevation_avail]
    ELSE route_loop(points, i + 1, Append(coords, Coord(points[i])),
                    elevation_avail \/ is_some(points[i].elevation))

convert_route(route) ==
    LET r == route_loop(route.points, 1, << >>, FALSE)
        geometry ==
            [type |-> "LineString",
             coords |-> r.coords,
             extrude |-> FALSE,
             tessellate |-> DEFAULT_TESSELLATE,
             altitude_mode |-> IF r.elevation_avail
                               THEN AltitudeModeAbsolute ELSE AltitudeModeDefault,
             attrs |-> << >>]
    IN  create_placemark(
            [name |-> route.name, links |-> route.links,
             description |-> route.description, comment |-> route.comment,
             time |-> None,
             source |-> route.source, typ |-> route.type,
             geometry |-> geometry])

(* The loop of convert_segment, 305-315. *)
RECURSIVE segment_loop(_, _, _, _)
segment_loop(points, i, coords, elevation_avail) ==
    IF i > Len(points) THEN [coords |-> coords, elevation_avail |-> elevation_avail]
    ELSE segment_loop(points, i + 1, Append(coords, Coord(points[i])),
                      elevation_avail \/ is_some(points[i].elevation))

convert_segment(segment) ==
    LET r == segment_loop(segment.points, 1, << >>, FALSE)
    IN  [type |-> "LineString",
         coords |-> r.coords,
         extrude |-> FALSE,
         tessellate |-> DEFAULT_TESSELLATE,
         altitude_mode |-> IF r.elevation_avail
                           THEN AltitudeModeAbsolute ELSE AltitudeModeDefault,
         attrs |-> << >>]

convert_track_skip_empty(track) ==
    LET kept == SelectSeq(track.segments, LAMBDA seg : seg.points # << >>)
        geometries == [j \in 1..Len(kept) |-> convert_segment(kept[j])]
    IN  create_placemark(
            [name |-> track.name, links |-> track.links,
             description |-> track.description, comment |-> track.comment,
             time |-> None,
             source |-> track.source, typ |-> track.type,
             geometry |-> [type |-> "MultiGeometry", geometries |-> geometries,
                           attrs |-> << >>]])

(* 285-301 *)
convert_track(track) ==
    LET geometries == [j \in 1..Len(track.segments) |-> convert_segment(track.segments[j])]
    IN  create_placemark(
            [name |-> track.name, links |-> track.links,
             description |-> track.description, comment |-> track.comment,
             time |-> None,
             source |-> track.source, typ |-> track.type,
             geometry |-> [type |-> "MultiGeometry", geometries |-> geometries,
                           attrs |-> << >>]])

----------------------------------------------------------------------------
(* The body of convert, lib.rs 89-127. *)

(* 95-97, 99-101, 103-105: the three loops that push the features. *)
push_waypoints(elements, waypoints) ==
    elements \o [i \in 1..Len(waypoints) |-> convert_waypoint(waypoints[i])]

push_routes_reversed(elements, routes) ==
    elements \o [i \in 1..Len(routes) |-> convert_route(routes[Len(routes) + 1 - i])]

push_routes(elements, routes) ==
    elements \o [i \in 1..Len(routes) |-> convert_route(routes[i])]

push_tracks(elements, tracks) ==
    elements \o [i \in 1..Len(tracks) |-> convert_track(tracks[i])]

(* 107-119: the Document inside the KmlDocument.  attrs is a HashMap; it   *)
(* is modelled by its entries in the order in which the map iterates.      *)
kml_document(elements, attrs) ==
    [kind |-> "KmlDocument", version |-> "V22", attrs |-> attrs,
     elements |-> << [kind |-> "Document", attrs |-> << >>, elements |-> elements] >>]

(* The orders in which a std HashMap built from entries may iterate: the   *)
(* hasher is seeded at random for every map.                               *)
HashMapOrders(entries) ==
    {s \in [1..Len(entries) -> {entries[i] : i \in 1..Len(entries)}] :
        \A i \in 1..Len(entries) : \E j \in 1..Len(entries) : s[j] = entries[i]}

(* KmlWriter::write of a KmlDocument: the start tag of the root with the   *)
(* attributes in the map's iteration order, the serialized elements, the   *)
(* end tag.                                                                *)
RECURSIVE attrs_text(_, _)
attrs_text(attrs, i) ==
    IF i > Len(attrs) THEN ""
    ELSE " " \o attrs[i][1] \o "=\"" \o attrs[i][2] \o "\"" \o attrs_text(attrs, i + 1)

start_tag(kml) == "<kml" \o attrs_text(kml.attrs, 1) \o ">"

write_kml(kml) ==
    [start |-> start_tag(kml), elements |-> kml.elements, end |-> "</kml>"]

----------------------------------------------------------------------------
(* The source documents the model reads: values of gpx::Gpx.              *)

LinkSet == {[href |-> "a", text |-> None], [href |-> "b", text |-> Some("site")]}
LinkSeqs == SeqUpTo(MaxLinks, LinkSet)

(* The second time stamp is one that format cannot render. *)
Times == {[year |-> 2021, month |-> 6, day |-> 1],
          [year |-> 0 - 1, month |-> 12, day |-> 31]}

(* A waypoint that carries a position and an elevation only. *)
Wpt(lon, lat, ele) ==
    [lon |-> lon, lat |-> lat, elevation |-> ele, name |-> None, links |-> << >>,
     description |-> None, comment |-> None, time |-> None, source |-> None,
     type |-> None]

WaypointGeo == {Wpt(lon, lat, ele) : lon \in {23, 0 - 450}, lat \in {489}, ele \in Opt({125})}

WaypointLinks ==
    {[Wpt(23, 489, None) EXCEPT !.name = n, !.links = l] :
        n \in Opt({"Eiffel Tower"}), l \in LinkSeqs}

WaypointText ==
    {[Wpt(23, 489, None) EXCEPT !.description = d, !.comment = c, !.time = t,
                                !.source = s, !.type = ty] :
        d \in Opt({"", "Hike"}), c \in Opt({"windy"}), t \in Opt(Times),
        s \in Opt({"gps"}), ty \in Opt({"peak"})}

WaypointSet == WaypointGeo \cup WaypointLinks \cup WaypointText

(* Points of routes and segments. *)
RoutePoints == {Wpt(10, 480, None), Wpt(20, 481, Some(50)), Wpt(30, 482, Some(125))}
SegPoints == {Wpt(10, 480, None), Wpt(20, 481, Some(50))}

Rte(points) ==
    [points |-> points, name |-> None, links |-> << >>, description |-> None,
     comment |-> None, source |-> None, type |-> None]

RouteGeo == {Rte(ps) : ps \in SeqUpTo(MaxRoutePoints, RoutePoints)}

RouteText ==
    {[Rte(ps) EXCEPT !.name = n, !.links = l, !.description = d, !.comment = c,
                        !.source = s, !.type = ty] :
        n \in Opt({"Loop"}), l \in {<< >>, << [href |-> "a", text |-> None] >>},
        ps \in {<< >>, << [Wpt(10, 480, None) EXCEPT !.description = Some("pt"),
                             !.time = Some([year |-> 2021, month |-> 6, day |-> 1])] >>},
        d \in Opt({"Hike"}), c \in Opt({"windy"}), s \in Opt({"gps"}),
        ty \in Opt({"trail"})}

RouteSet == RouteGeo \cup RouteText

Seg(points) == [points |-> points]

SegmentSet == {Seg(ps) : ps \in SeqUpTo(MaxSegPoints, SegPoints)}

Trk(segments) ==
    [segments |-> segments, name |-> None, links |-> << >>, description |-> None,
     comment |-> None, source |-> None, type |-> None]

(* Segments of at most one point, for the tracks of several segments. *)
ShortSegments == {Seg(<< >>)} \cup {Seg(<< p >>) : p \in SegPoints}

TrackGeo ==
    {Trk(ss) : ss \in SeqUpTo(MaxSegments, ShortSegments)}
    \cup {Trk(<< s >>) : s \in SegmentSet}
    \cup {Trk(<< s, Seg(<< >>) >>) : s \in SegmentSet}
    \cup {Trk(<< Seg(<< >>), s >>) : s \in SegmentSet}

TrackText ==
    {[Trk(<< >>) EXCEPT !.name = n, !.links = l, !.description = d, !.comment = c,
                        !.source = s, !.type = ty] :
        n \in Opt({"Run"}), l \in {<< >>, << [href |-> "b", text |-> None] >>},
        d \in Opt({"Hike"}), c \in Opt({"windy"}), s \in Opt({"gps"}),
        ty \in Opt({"run"})}

TrackSet == TrackGeo \cup TrackText

Persons ==
    [name : Opt({"", "Ann"}), email : Opt({"", "a@b.c"}),
     link : Opt({[href |-> "a", text |-> None]})]

Copyrights == [author : Opt({"Ann"}), year : Opt({2020}), license : Opt({"CC"})]

(* Metadata that varies in the fields of the description text. *)
MetadataText ==
    {[DefaultMetadata EXCEPT !.description = d, !.time = t, !.keywords = k,
                             !.copyright = c] :
        d \in Opt({"", "Hike"}), t \in Opt(Times), k \in Opt({"alps,summer"}),
        c \in Opt(Copyrights)}

(* Metadata that varies in name, author and links. *)
MetadataHead ==
    {[DefaultMetadata EXCEPT !.name = n, !.author = a, !.links = l] :
        n \in Opt({"Trip"}), a \in Opt(Persons), l \in LinkSeqs}

Creators == Opt({"GPSBabel"})

Gpx(metadata, creator, waypoints, routes, tracks) ==
    [metadata |-> metadata, creator |-> creator, waypoints |-> waypoints,
     routes |-> routes, tracks |-> tracks]

(* Two features of each kind, told apart by name and geometry, for the     *)
(* documents that vary in the number and the order of the features.        *)
OrderWaypoints ==
    {[Wpt(23, 489, None) EXCEPT !.name = Some("w1")],
     [Wpt(24, 490, Some(125)) EXCEPT !.name = Some("w2")]}
OrderRoutes ==
    {[Rte(<< Wpt(10, 480, None) >>) EXCEPT !.name = Some("r1")],
     [Rte(<< Wpt(20, 481, Some(50)) >>) EXCEPT !.name = Some("r2")]}
OrderTracks ==
    {[Trk(<< Seg(<< Wpt(10, 480, None) >>) >>) EXCEPT !.name = Some("t1")],
     [Trk(<< >>) EXCEPT !.name = Some("t2")]}

GpxSet ==
    {Gpx(m, c, << >>, << >>, << >>) : m \in Opt(MetadataText), c \in Creators}
    \cup {Gpx(Some(m), None, << >>, << >>, << >>) : m \in MetadataHead}
    \cup {Gpx(None, None, ws, rs, ts) :
            ws \in SeqUpTo(MaxWaypoints, OrderWaypoints),
            rs \in SeqUpTo(MaxRoutes, OrderRoutes),
            ts \in SeqUpTo(MaxTracks, OrderTracks)}
    \cup {Gpx(None, None, << w >>, << >>, << >>) : w \in WaypointSet}
    \cup {Gpx(None, None, << >>, << r >>, << >>) : r \in RouteSet}
    \cup {Gpx(None, None, << >>, << >>, << t >>) : t \in TrackSet}

(* What convert is given to read: bytes that gpx::read parses to a         *)
(* document, or bytes that it rejects.                                     *)
Sources == {[ok |-> TRUE, gpx |-> g] : g \in GpxSet} \cup {[ok |-> FALSE]}

----------------------------------------------------------------------------
(* The state of one call of convert and of its caller. *)

VARIABLES
    source,     \* the bytes given to convert
    pc,         \* the statement convert is at
    gpx,        \* Some(parsed document) once gpx::read has returned Ok
    elements,   \* the Vec elements of convert
    kml,        \* Some(the KmlDocument) once it is built
    sink,       \* what the sink holds: the pieces written to it, in order
    writes,     \* the outcome of every write made on the sink, in order
    result,     \* what the call returned, or "running", or "panic"
    run,        \* the number of the call the caller is making on this source
    prevSink    \* Some(sink of the previous successful call), for run > 1

vars == <<source, pc, gpx, elements, kml, sink, writes, result, run, prevSink>>

Init ==
    /\ source \in Sources
    /\ pc = "read"
    /\ gpx = None
    /\ elements = << >>
    /\ kml = None
    /\ sink = << >>
    /\ writes = << >>
    /\ result = "running"
    /\ run = 1
    /\ prevSink = None

Read_head_first ==
    /\ pc = "read"
    /\ sink' = Append(sink, XML_HEAD \o "\n")
    /\ writes' = Append(writes, TRUE)
    /\ IF source.ok
       THEN /\ gpx' = Some(source.gpx)
            /\ pc' = "metadata"
            /\ result' = result
       ELSE /\ gpx' = gpx
            /\ pc' = "done"
            /\ result' = "ErrGpx"
    /\ UNCHANGED <<source, elements, kml, run, prevSink>>

(* 90: gpx::read(source)?  *)
Read ==
    /\ pc = "read"
    /\ IF source.ok
       THEN /\ gpx' = Some(source.gpx)
            /\ pc' = "metadata"
            /\ result' = result
       ELSE /\ gpx' = gpx
            /\ pc' = "done"
            /\ result' = "ErrGpx"
    /\ UNCHANGED <<source, elements, kml, sink, writes, run, prevSink>>

(* 92-93 *)
Metadata ==
    /\ pc = "metadata"
    /\ elements' = push_metadata(unwrap_or_default_metadata(unwrap(gpx).metadata),
                                 unwrap(gpx).creator,
                                 << simple_kelem("open", DEFAULT_OPEN) >>)
    /\ pc' = "waypoints"
    /\ UNCHANGED <<source, gpx, kml, sink, writes, result, run, prevSink>>

(* 95-97 *)
Waypoints ==
    /\ pc = "waypoints"
    /\ elements' = push_waypoints(elements, unwrap(gpx).waypoints)
    /\ pc' = "routes"
    /\ UNCHANGED <<source, gpx, kml, sink, writes, result, run, prevSink>>

(* 99-101 *)
Routes ==
    /\ pc = "routes"
    /\ elements' = push_routes(elements, unwrap(gpx).routes)
    /\ pc' = "tracks"
    /\ UNCHANGED <<source, gpx, kml, sink, writes, result, run, prevSink>>

(* 103-105 *)
Tracks ==
    /\ pc = "tracks"
    /\ elements' = push_tracks(elements, unwrap(gpx).tracks)
    /\ pc' = "document"
    /\ UNCHANGED <<source, gpx, kml, sink, writes, result, run, prevSink>>

(* 107-119: elements moves into the document; the namespaces are          *)
(* collected into a HashMap.                                               *)
Document ==
    /\ pc = "document"
    /\ \E attrs \in HashMapOrders(NAMESPACES) :
            kml' = Some(kml_document(elements, attrs))
    /\ elements' = << >>
    /\ pc' = "write_head"
    /\ UNCHANGED <<source, gpx, sink, writes, result, run, prevSink>>

(* 121: writeln!(&mut sink, "{XML_HEAD}").unwrap() *)
WriteHead ==
    /\ pc = "write_head"
    /\ \E ok \in BOOLEAN :
          /\ writes' = Append(writes, ok)
          /\ IF ok
             THEN /\ sink' = Append(sink, XML_HEAD \o "\n")
                  /\ pc' = "write_kml"
                  /\ result' = result
             ELSE /\ sink' = sink
                  /\ pc' = "done"
                  /\ result' = "panic"
    /\ UNCHANGED <<source, gpx, elements, kml, run, prevSink>>

(* 122-123: writer.write(&kml)?  A failing write may leave a prefix of the *)
(* document in the sink.                                                   *)
WriteKml ==
    /\ pc = "write_kml"
    /\ \E ok \in BOOLEAN :
          /\ writes' = Append(writes, ok)
          /\ IF ok
             THEN /\ sink' = Append(sink, write_kml(unwrap(kml)))
                  /\ pc' = "write_newline"
                  /\ result' = result
             ELSE /\ sink' \in {sink, Append(sink, start_tag(unwrap(kml)))}
                  /\ pc' = "done"
                  /\ result' = "ErrKml"
    /\ UNCHANGED <<source, gpx, elements, kml, run, prevSink>>

WriteNewline_skipped ==
    /\ pc = "write_newline"
    /\ result' = "Ok"
    /\ pc' = "done"
    /\ UNCHANGED <<source, gpx, elements, kml, sink, writes, run, prevSink>>

(* 124-126: writeln!(&mut sink).unwrap(); Ok(()) *)
WriteNewline ==
    /\ pc = "write_newline"
    /\ \E ok \in BOOLEAN :
          /\ writes' = Append(writes, ok)
          /\ IF ok
             THEN /\ sink' = Append(sink, "\n")
                  /\ result' = "Ok"
             ELSE /\ sink' = sink
                  /\ result' = "panic"
    /\ pc' = "done"
    /\ UNCHANGED <<source, gpx, elements, kml, run, prevSink>>

(* The caller converts the same source again, into a fresh sink            *)
(* (wasm convert makes a new Vec for every call).                          *)
ConvertAgain ==
    /\ pc = "done"
    /\ result = "Ok"
    /\ run < MaxRuns
    /\ prevSink' = Some(sink)
    /\ run' = run + 1
    /\ pc' = "read"
    /\ gpx' = None
    /\ elements' = << >>
    /\ kml' = None
    /\ sink' = << >>
    /\ writes' = << >>
    /\ result' = "running"
    /\ UNCHANGED source

Next ==
    \/ Read
    \/ Metadata
    \/ Waypoints
    \/ Routes
    \/ Tracks
    \/ Document
    \/ WriteHead
    \/ WriteKml
    \/ WriteNewline

(* One call of convert. *)
Spec == Init /\ [][Next]_vars

(* A caller that converts the same source several times. *)
NextRepeat ==
    \/ Next
    \/ ConvertAgain

SpecRepeat == Init /\ [][NextRepeat]_vars

----------------------------------------------------------------------------
(* What the properties below read from the state. *)

(* The features of the document read: waypoints, then routes, then tracks. *)
W == Len(unwrap(gpx).waypoints)
R == Len(unwrap(gpx).routes)
T == Len(unwrap(gpx).tracks)

(* The Document has been built. *)
Built == is_some(kml)

(* The children of the Document node. *)
DocChildren == unwrap(kml).elements[1].elements

(* The number of children in front of the features. *)
M == Len(DocChildren) - (W + R + T)

IsMarker(e) ==
    /\ e.kind = "Element"
    /\ e.element.name = "open"
    /\ e.element.content = Some("1")

IsMetadataElement(e) ==
    /\ e.kind = "Element"
    /\ e.element.name \in {"name", "atom:author", "atom:link", "description"}

GeometryOf(e) == unwrap(e.geometry)

(* C1: the children of the Document are the marker, then the elements     *)
(* derived from the metadata, then exactly W+R+T Placemarks: first the     *)
(* waypoints, then the routes, then the tracks, each group in source       *)
(* order.                                                                  *)
C1_FeatureOrder ==
    Built =>
        /\ M >= 1
        /\ IsMarker(DocChildren[1])
        /\ \A i \in 2..M : IsMetadataElement(DocChildren[i])
        /\ \A i \in 1..W :
              LET f == DocChildren[M + i]
                  w == unwrap(gpx).waypoints[i]
              IN  /\ f.kind = "Placemark"
                  /\ GeometryOf(f).type = "Point"
                  /\ f.name = w.name
                  /\ GeometryOf(f).coord.x = w.lon
                  /\ GeometryOf(f).coord.y = w.lat
        /\ \A i \in 1..R :
              LET f == DocChildren[M + W + i]
                  r == unwrap(gpx).routes[i]
              IN  /\ f.kind = "Placemark"
                  /\ GeometryOf(f).type = "LineString"
                  /\ f.name = r.name
                  /\ Len(GeometryOf(f).coords) = Len(r.points)
                  /\ \A k \in 1..Len(r.points) :
                        GeometryOf(f).coords[k].x = r.points[k].lon
        /\ \A i \in 1..T :
              LET f == DocChildren[M + W + R + i]
                  t == unwrap(gpx).tracks[i]
              IN  /\ f.kind = "Placemark"
                  /\ GeometryOf(f).type = "MultiGeometry"
                  /\ f.name = t.name
                  /\ Len(GeometryOf(f).geometries) = Len(t.segments)

(* C1 witness: a document with two different features of every kind has    *)
(* been assembled.                                                         *)
C1_Witness ==
    /\ Built
    /\ W = 2 /\ R = 2 /\ T = 2
    /\ unwrap(gpx).waypoints[1] # unwrap(gpx).waypoints[2]
    /\ unwrap(gpx).routes[1] # unwrap(gpx).routes[2]
    /\ unwrap(gpx).tracks[1] # unwrap(gpx).tracks[2]
    /\ Len(DocChildren) = 7

(* C2: when the first write on the sink fails, convert returns Error::Kml  *)
(* and makes no further write; it does not panic.                          *)
C2_FirstWriteFails ==
    (pc = "done" /\ Len(writes) >= 1 /\ ~writes[1]) =>
        (result = "ErrKml" /\ Len(writes) = 1)

(* C2 failing input: a source that parses and a sink whose first write     *)
(* fails; convert has panicked on line 121.                                *)
C2_Panicked ==
    /\ pc = "done"
    /\ writes = << FALSE >>
    /\ result = "panic"

----------------------------------------------------------------------------
(* The metadata description. *)

(* The metadata convert passes to push_metadata, and the creator. *)
SrcMetadata ==
    IF is_some(unwrap(gpx).metadata) THEN unwrap(unwrap(gpx).metadata)
    ELSE [name |-> None, author |-> None, links |-> << >>, description |-> None,
          time |-> None, keywords |-> None, copyright |-> None]
SrcCreator == unwrap(gpx).creator

(* The content of the description element among the metadata-derived       *)
(* children of the Document, None if there is no such element.             *)
MetaDescriptionAt ==
    {i \in 2..M : /\ DocChildren[i].kind = "Element"
                  /\ DocChildren[i].element.name = "description"}
MetaDescription ==
    IF MetaDescriptionAt = {} THEN None
    ELSE DocChildren[CHOOSE i \in MetaDescriptionAt : TRUE].element.content

(* A text as an optional value: absent when empty. *)
NonEmpty(text) == IF text = "" THEN None ELSE Some(text)

(* The lines of the present ones of a sequence of optional texts. *)
RECURSIVE Lines(_)
Lines(clauses) ==
    IF clauses = << >> THEN ""
    ELSE (IF is_some(Head(clauses)) THEN unwrap(Head(clauses)) \o "\n" ELSE "")
         \o Lines(Tail(clauses))

(* The present ones of a sequence of optional words, each after a space. *)
RECURSIVE Words(_)
Words(ws) ==
    IF ws = << >> THEN ""
    ELSE (IF is_some(Head(ws)) THEN " " \o unwrap(Head(ws)) ELSE "") \o Words(Tail(ws))

KeywordsClause(md) ==
    IF is_some(md.keywords) THEN Some("Keywords: " \o unwrap(md.keywords)) ELSE None

CopyrightClause(md) ==
    IF ~is_some(md.copyright) THEN None
    ELSE LET c == unwrap(md.copyright)
             ws == << c.author,
                      IF is_some(c.year) THEN Some(IntToStr(unwrap(c.year))) ELSE None,
                      IF is_some(c.license) THEN Some("under " \o unwrap(c.license))
                      ELSE None >>
         IN  IF Words(ws) = "" THEN None ELSE Some("Copyright" \o Words(ws))

(* The rendering of the metadata time stamp, None if there is none or it   *)
(* cannot be rendered.                                                     *)
MetaTime == IF is_some(SrcMetadata.time) THEN format(unwrap(SrcMetadata.time)) ELSE None

(* The "Created" clause: fired by a rendered time stamp or by a creator. *)
CreatedClause ==
    CASE is_some(MetaTime) /\ is_some(SrcCreator) ->
            Some("Created " \o unwrap(MetaTime) \o " by " \o unwrap(SrcCreator))
      [] is_some(MetaTime) /\ ~is_some(SrcCreator) ->
            Some("Created " \o unwrap(MetaTime))
      [] ~is_some(MetaTime) /\ is_some(SrcCreator) ->
            Some("Created by " \o unwrap(SrcCreator))
      [] OTHER -> None

(* C3 as stated: for a document with a creator and no metadata time stamp  *)
(* the metadata description has no "Created" line: it is made of the       *)
(* description, keywords and copyright clauses alone.                      *)
C3_NoCreatedWithoutTime ==
    (Built /\ is_some(SrcCreator) /\ ~is_some(SrcMetadata.time)) =>
        MetaDescription =
            NonEmpty(Lines(<< SrcMetadata.description, KeywordsClause(SrcMetadata),
                              CopyrightClause(SrcMetadata) >>))

(* C3 as amended: the "Created" line is in the metadata description if and *)
(* only if the time stamp is present and renders or a creator is present;  *)
(* it reads "Created", then " <time>" if there is a rendered time, then    *)
(* " by <creator>" if there is a creator, and stands between the           *)
(* description and the keywords.                                           *)
C3_CreatedLine ==
    Built =>
        MetaDescription =
            NonEmpty(Lines(<< SrcMetadata.description, CreatedClause,
                              KeywordsClause(SrcMetadata),
                              CopyrightClause(SrcMetadata) >>))

(* C3 witness: a creator, no time stamp, and the line "Created by ...". *)
C3_Witness ==
    /\ Built
    /\ SrcCreator = Some("GPSBabel")
    /\ ~is_some(SrcMetadata.time)
    /\ ~is_some(SrcMetadata.description)
    /\ MetaDescription = Some("Created by GPSBabel\nKeywords: alps,summer\n")

(* Every optional field of the metadata is absent (or the metadata is). *)
AllAbsent(md) ==
    /\ ~is_some(md.name) /\ ~is_some(md.author) /\ md.links = << >>
    /\ ~is_some(md.description) /\ ~is_some(md.time)
    /\ ~is_some(md.keywords) /\ ~is_some(md.copyright)

(* C4 as stated: metadata absent or with every optional field absent       *)
(* gives no description element, whatever the creator is.                  *)
C4_NoDescriptionAnyCreator ==
    (Built /\ AllAbsent(SrcMetadata)) => MetaDescription = None

(* C4 as amended: metadata absent or with every optional field absent      *)
(* gives no description element when the document has no creator.          *)
C4_NoDescriptionNoCreator ==
    (Built /\ AllAbsent(SrcMetadata) /\ ~is_some(SrcCreator)) =>
        /\ MetaDescription = None
        /\ \A i \in 1..Len(DocChildren) :
              DocChildren[i].kind = "Element" =>
                  DocChildren[i].element.name # "description"

(* C4 witness: metadata present with every field absent, no creator, and a *)
(* Document whose only child is the marker.                                *)
C4_Witness ==
    /\ Built
    /\ is_some(unwrap(gpx).metadata)
    /\ AllAbsent(SrcMetadata)
    /\ ~is_some(SrcCreator)
    /\ Len(DocChildren) = 1

(* C5: two calls of convert on the same source leave the same bytes in     *)
(* their sinks.                                                            *)
C5_Deterministic ==
    (pc = "done" /\ result = "Ok" /\ is_some(prevSink)) => sink = unwrap(prevSink)

(* C6: without a time stamp and a creator the metadata description is the  *)
(* description, "Keywords: <keywords>" and the "Copyright" line, each      *)
(* newline-terminated and only if present, in this order; a copyright      *)
(* record with no field contributes nothing.                               *)
C6_Example ==
    /\ SrcMetadata.description = Some("Hike")
    /\ SrcMetadata.keywords = Some("alps,summer")
    /\ SrcMetadata.copyright =
          Some([author |-> None, year |-> Some(2020), license |-> None])

C6_MetadataText ==
    (Built /\ ~is_some(SrcMetadata.time) /\ ~is_some(SrcCreator)) =>
        /\ MetaDescription =
              NonEmpty(Lines(<< SrcMetadata.description, KeywordsClause(SrcMetadata),
                                CopyrightClause(SrcMetadata) >>))
        /\ C6_Example =>
              MetaDescription = Some("Hike\nKeywords: alps,summer\nCopyright 2020\n")
        /\ SrcMetadata.copyright =
              Some([author |-> None, year |-> None, license |-> None]) =>
                 MetaDescription =
                    NonEmpty(Lines(<< SrcMetadata.description,
                                      KeywordsClause(SrcMetadata) >>))

(* C6 witness: the Hike example has been converted.          *)
C6_Witness ==
    /\ Built
    /\ ~is_some(SrcMetadata.time) /\ ~is_some(SrcCreator)
    /\ C6_Example
    /\ MetaDescription = Some("Hike\nKeywords: alps,summer\nCopyright 2020\n")

----------------------------------------------------------------------------
(* The features. *)

(* The i-th Placemark of the Document and the source feature it is built   *)
(* from.                                                                   *)
Feature(i) == DocChildren[M + i]
SrcWaypoint(i) == unwrap(gpx).waypoints[i]
SrcRoute(i) == unwrap(gpx).routes[i]
SrcTrack(i) == unwrap(gpx).tracks[i]

(* The descriptive fields of the i-th source feature; only a waypoint has  *)
(* a time stamp, and it counts when format renders it.                     *)
SrcFields(i) ==
    IF i <= W
    THEN LET w == SrcWaypoint(i)
         IN  [description |-> w.description, comment |-> w.comment,
              created |-> IF is_some(w.time) THEN format(unwrap(w.time)) ELSE None,
              source |-> w.source, type |-> w.type]
    ELSE LET f == IF i <= W + R THEN SrcRoute(i - W) ELSE SrcTrack(i - W - R)
         IN  [description |-> f.description, comment |-> f.comment,
              created |-> None, source |-> f.source, type |-> f.type]

Prefixed(prefix, o) == IF is_some(o) THEN Some(prefix \o unwrap(o)) ELSE None

(* C7: a Placemark's description is the description, the comment,          *)
(* "Created <time>", "Source: <source>" and "Type: <type>", each on a line *)
(* of its own and only if present, in this order; it is absent when none   *)
(* is present; routes and tracks have no "Created" line.                   *)
C7_FeatureText ==
    Built =>
        \A i \in 1..(W + R + T) :
            /\ Feature(i).kind = "Placemark"
            /\ Feature(i).description =
                  NonEmpty(Lines(<< SrcFields(i).description,
                                    SrcFields(i).comment,
                                    Prefixed("Created ", SrcFields(i).created),
                                    Prefixed("Source: ", SrcFields(i).source),
                                    Prefixed("Type: ", SrcFields(i).type) >>))

(* C7 witness: a waypoint with all five fields has been converted. *)
C7_Witness ==
    /\ Built
    /\ W = 1
    /\ Feature(1).description =
          Some("Hike\nwindy\nCreated 2021-06-01T00:00:00.000000000Z\nSource: gps\nType: peak\n")

(* A LineString built from a sequence of points: tessellated, one          *)
(* coordinate (longitude, latitude, own elevation) per point in order, and *)
(* absolute exactly when some point has an elevation.                      *)
IsLineOf(g, points) ==
    /\ g.type = "LineString"
    /\ g.tessellate = TRUE
    /\ Len(g.coords) = Len(points)
    /\ \A k \in 1..Len(points) :
          /\ g.coords[k].x = points[k].lon
          /\ g.coords[k].y = points[k].lat
          /\ g.coords[k].z = points[k].elevation
    /\ g.altitude_mode \in {"Absolute", "ClampToGround"}
    /\ g.altitude_mode = "Absolute" <=>
          \E k \in 1..Len(points) : points[k].elevation # None

(* C8: the LineString of every route and of every track segment. *)
C8_LineString ==
    Built =>
        /\ \A i \in 1..R :
              /\ Feature(W + i).kind = "Placemark"
              /\ IsLineOf(GeometryOf(Feature(W + i)), SrcRoute(i).points)
        /\ \A i \in 1..T :
              /\ Feature(W + R + i).kind = "Placemark"
              /\ GeometryOf(Feature(W + R + i)).type = "MultiGeometry"
              /\ Len(GeometryOf(Feature(W + R + i)).geometries)
                    = Len(SrcTrack(i).segments)
              /\ \A j \in 1..Len(SrcTrack(i).segments) :
                    IsLineOf(GeometryOf(Feature(W + R + i)).geometries[j],
                             SrcTrack(i).segments[j].points)

(* C8 witness: a route of three points with elevations absent, 5.0,        *)
(* absent is an absolute line whose z-components are absent, 5.0, absent.  *)
C8_Witness ==
    /\ Built
    /\ R = 1
    /\ Len(SrcRoute(1).points) = 3
    /\ GeometryOf(Feature(W + 1)).altitude_mode = "Absolute"
    /\ GeometryOf(Feature(W + 1)).coords[1].z = None
    /\ GeometryOf(Feature(W + 1)).coords[2].z = Some(50)
    /\ GeometryOf(Feature(W + 1)).coords[3].z = None

(* C9: the geometry of a waypoint is a Point at (longitude, latitude,      *)
(* elevation or absent), absolute if and only if it has an elevation.      *)
C9_Point ==
    Built =>
        \A i \in 1..W :
            LET g == GeometryOf(Feature(i))
                w == SrcWaypoint(i)
            IN  /\ Feature(i).kind = "Placemark"
                /\ g.type = "Point"
                /\ g.coord.x = w.lon
                /\ g.coord.y = w.lat
                /\ g.coord.z = w.elevation
                /\ IF w.elevation = None
                   THEN g.altitude_mode = "ClampToGround"
                   ELSE g.altitude_mode = "Absolute"

(* C9 witness: a waypoint with elevation 12.5 is an absolute Point with z  *)
(* 12.5, its longitude in x and its latitude in y.                         *)
C9_Witness ==
    /\ Built
    /\ W = 1
    /\ SrcWaypoint(1).lon # SrcWaypoint(1).lat
    /\ GeometryOf(Feature(1)).coord =
          [x |-> SrcWaypoint(1).lon, y |-> SrcWaypoint(1).lat, z |-> Some(125)]
    /\ GeometryOf(Feature(1)).altitude_mode = "Absolute"

(* C10: a track of n segments is a MultiGeometry of n LineStrings, the     *)
(* j-th from the j-th segment; an empty segment is a LineString without    *)
(* coordinates in the default mode; the mode of a LineString depends on    *)
(* its own segment alone.                                                  *)
C10_MultiGeometry ==
    Built =>
        \A i \in 1..T :
            LET g == GeometryOf(Feature(W + R + i))
                segs == SrcTrack(i).segments
            IN  /\ Feature(W + R + i).kind = "Placemark"
                /\ g.type = "MultiGeometry"
                /\ Len(g.geometries) = Len(segs)
                /\ \A j \in 1..Len(segs) :
                      /\ g.geometries[j].type = "LineString"
                      /\ Len(g.geometries[j].coords) = Len(segs[j].points)
                      /\ \A k \in 1..Len(segs[j].points) :
                            g.geometries[j].coords[k] =
                                [x |-> segs[j].points[k].lon,
                                 y |-> segs[j].points[k].lat,
                                 z |-> segs[j].points[k].elevation]
                      /\ segs[j].points = << >> =>
                            g.geometries[j].altitude_mode = "ClampToGround"
                      /\ g.geometries[j].altitude_mode = "Absolute" <=>
                            \E k \in 1..Len(segs[j].points) :
                                is_some(segs[j].points[k].elevation)
                      /\ \A j2 \in 1..Len(segs) :
                            segs[j2].points = segs[j].points =>
                                g.geometries[j2].altitude_mode
                                    = g.geometries[j].altitude_mode

(* C10 witness: a track whose first segment is empty and whose second has  *)
(* an elevation: an empty default LineString, then an absolute one.        *)
C10_Witness ==
    /\ Built
    /\ T = 1
    /\ Len(SrcTrack(1).segments) = 2
    /\ SrcTrack(1).segments[1].points = << >>
    /\ GeometryOf(Feature(W + R + 1)).geometries[1].coords = << >>
    /\ GeometryOf(Feature(W + R + 1)).geometries[1].altitude_mode = "ClampToGround"
    /\ GeometryOf(Feature(W + R + 1)).geometries[2].altitude_mode = "Absolute"

----------------------------------------------------------------------------
(* Errors of the parse. *)

(* C11: when gpx::read fails, convert returns Error::Gpx and has made no   *)
(* write on the sink, which holds what it held before; in every call the   *)
(* parse comes before the first write.                                     *)
C11_ParseErrorBeforeWrite ==
    /\ (pc = "done" /\ ~source.ok) =>
          (result = "ErrGpx" /\ writes = << >> /\ sink = << >>)
    /\ result = "ErrGpx" => (~source.ok /\ writes = << >> /\ sink = << >>)
    /\ (writes # << >> \/ sink # << >>) => (source.ok /\ is_some(gpx))
    /\ pc = "read" => (writes = << >> /\ sink = << >>)

(* C11 witness: a source that gpx::read rejects has been given to convert, *)
(* which has returned.                                                     *)
C11_Witness ==
    /\ ~source.ok
    /\ pc = "done"
    /\ result = "ErrGpx"
    /\ sink = << >>

----------------------------------------------------------------------------
(* Links. *)

(* An atom:link element that carries the href and nothing else. *)
IsLinkTo(e, href) ==
    /\ e.name = "atom:link"
    /\ e.attrs = << <<"href", href>> >>
    /\ e.content = None
    /\ e.children = << >>

(* The links of the i-th source feature. *)
SrcLinks(i) ==
    IF i <= W THEN SrcWaypoint(i).links
    ELSE IF i <= W + R THEN SrcRoute(i - W).links
    ELSE SrcTrack(i - W - R).links

(* Where the top-level link elements stand among the metadata-derived      *)
(* children of the Document.                                               *)
MetaLinkAt ==
    {i \in 2..M : /\ DocChildren[i].kind = "Element"
                  /\ DocChildren[i].element.name = "atom:link"}

(* C12: a feature with k links has exactly k children, the i-th an         *)
(* atom:link whose only attribute is the href of the i-th source link,     *)
(* without content; every metadata link gives one top-level atom:link, in  *)
(* source order.                                                           *)
C12_Links ==
    Built =>
        /\ \A i \in 1..(W + R + T) :
              /\ Feature(i).kind = "Placemark"
              /\ Len(Feature(i).children) = Len(SrcLinks(i))
              /\ \A k \in 1..Len(SrcLinks(i)) :
                    IsLinkTo(Feature(i).children[k], SrcLinks(i)[k].href)
        /\ Cardinality(MetaLinkAt) = Len(SrcMetadata.links)
        /\ \A i \in MetaLinkAt :
              IsLinkTo(DocChildren[i].element,
                       SrcMetadata.links[Cardinality({j \in MetaLinkAt : j <= i})].href)

(* C12 witness: a waypoint with the links a and b, the second with a text, *)
(* has become a Placemark with two link children, a then b.                *)
C12_Witness ==
    /\ Built
    /\ W = 1
    /\ SrcWaypoint(1).links =
          << [href |-> "a", text |-> None], [href |-> "b", text |-> Some("site")] >>
    /\ Feature(1).children =
          << [name |-> "atom:link", attrs |-> << <<"href", "a">> >>,
              content |-> None, children |-> << >>],
             [name |-> "atom:link", attrs |-> << <<"href", "b">> >>,
              content |-> None, children |-> << >>] >>

----------------------------------------------------------------------------
(* The framing of the output. *)

(* The start tag of a root that declares the two namespaces, in either     *)
(* order of the attributes.                                                *)
RootStartTags ==
    {"<kml xmlns=\"http://www.opengis.net/kml/2.2\" xmlns:atom=\"http://www.w3.org/2005/Atom\">",
     "<kml xmlns:atom=\"http://www.w3.org/2005/Atom\" xmlns=\"http://www.opengis.net/kml/2.2\">"}

(* C13: a successful call has made exactly three writes and the sink holds *)
(* exactly the XML head line with its newline, the serialized document and *)
(* one newline, in this order; the root declares the kml namespace as the  *)
(* default and the atom namespace, and the document under it starts with   *)
(* the marker "1".                                                         *)
C13_Framing ==
    /\ result = "Ok" =>
          /\ pc = "done"
          /\ writes = << TRUE, TRUE, TRUE >>
          /\ Len(sink) = 3
          /\ sink[1] = "<?xml version=\"1.0\" encoding=\"UTF-8\"?>\n"
          /\ sink[2].start \in RootStartTags
          /\ sink[2].end = "</kml>"
          /\ sink[2].elements = unwrap(kml).elements
          /\ Len(sink[2].elements) = 1
          /\ sink[2].elements[1].kind = "Document"
          /\ Len(sink[2].elements[1].elements) >= 1
          /\ sink[2].elements[1].elements[1] =
                [kind |-> "Element",
                 element |-> [name |-> "open", attrs |-> << >>,
                              content |-> Some("1"), children |-> << >>]]
          /\ sink[3] = "\n"
    /\ Len(sink) <= 3
    /\ Len(sink) >= 1 => sink[1] = "<?xml version=\"1.0\" encoding=\"UTF-8\"?>\n"
    /\ Len(sink) = 3 => result = "Ok"

(* C13 witness: a call has returned Ok after its three writes. *)
C13_Witness ==
    /\ pc = "done"
    /\ result = "Ok"
    /\ Len(sink) = 3
    /\ sink[3] = "\n"
    /\ Len(writes) = 3

----------------------------------------------------------------------------
(* The author of the metadata. *)

(* An optional string that is present and not empty. *)
Filled(o) == is_some(o) /\ unwrap(o) # ""

(* Where the atom:author element stands among the metadata-derived         *)
(* children of the Document.                                               *)
AuthorAt ==
    {i \in 2..M : /\ DocChildren[i].kind = "Element"
                  /\ DocChildren[i].element.name = "atom:author"}

(* The text of the name child for an author with a name or an email. *)
AuthorNameText(a) ==
    CASE Filled(a.name) /\ Filled(a.email) ->
            unwrap(a.name) \o " " \o "<" \o unwrap(a.email) \o ">"
      [] Filled(a.name) /\ ~Filled(a.email) -> unwrap(a.name)
      [] ~Filled(a.name) /\ Filled(a.email) -> "<" \o unwrap(a.email) \o ">"
      [] OTHER -> ""

(* The children an author element must have: the name child if there is a  *)
(* name or an email that is not empty, then the link if there is one.      *)
AuthorChildrenOk(children, a) ==
    LET named == Filled(a.name) \/ Filled(a.email)
        n == IF named THEN 1 ELSE 0
    IN  /\ children # << >>
        /\ Len(children) = n + (IF is_some(a.link) THEN 1 ELSE 0)
        /\ named =>
              children[1] = [name |-> "atom:name", attrs |-> << >>,
                             content |-> Some(AuthorNameText(a)), children |-> << >>]
        /\ is_some(a.link) => IsLinkTo(children[n + 1], unwrap(a.link).href)

(* C14: the atom:author element is emitted if and only if the author has a *)
(* name that is not empty, an email that is not empty, or a link; it never *)
(* has zero children; its name child reads "<name>", "<<email>>" or        *)
(* "<name> <<email>>"; an empty name or email counts as an absent one.     *)
C14_Author ==
    Built =>
        /\ Cardinality(AuthorAt) <= 1
        /\ AuthorAt # {} <=>
              /\ is_some(SrcMetadata.author)
              /\ \/ Filled(unwrap(SrcMetadata.author).name)
                 \/ Filled(unwrap(SrcMetadata.author).email)
                 \/ is_some(unwrap(SrcMetadata.author).link)
        /\ \A i \in AuthorAt :
              /\ is_some(SrcMetadata.author)
              /\ AuthorChildrenOk(DocChildren[i].element.children,
                                  unwrap(SrcMetadata.author))

(* C14 witness: an author with an empty name and an email has given an     *)
(* author element whose only child is the name "<a@b.c>".                  *)
C14_Witness ==
    /\ Built
    /\ SrcMetadata.author = Some([name |-> Some(""), email |-> Some("a@b.c"),
                                  link |-> None])
    /\ \E i \in AuthorAt :
          DocChildren[i].element.children =
              << [name |-> "atom:name", attrs |-> << >>,
                  content |-> Some("<a@b.c>"), children |-> << >>] >>

(* An author whose name and email are both empty and who has no link gives *)
(* no author element.                                                      *)
C14_WitnessNone ==
    /\ Built
    /\ SrcMetadata.author = Some([name |-> Some(""), email |-> Some(""), link |-> None])
    /\ AuthorAt = {}

====
